---- MODULE Spec2Model ----
(***************************************************************************)
(* Model of the events resource of the REST service                        *)
(* (rest-service/manager_rest/rest/resources_v1/events.py): the query      *)
(* builders _build_select_query / _build_count_query with their helpers,   *)
(* the result mapper _map_event_to_es and the request handler              *)
(* _query_events, executed against a store of events and logs that are     *)
(* owned by executions, which are owned by deployments.                    *)
(* With it: the token authentication of security/user_handler.py and the  *)
(* tenant membership properties of storage/management_models.py.          *)
(*                                                                         *)
(* A field name is modelled as [ats, name]: the number of leading `@`      *)
(* characters and the rest of the name, so that str.lstrip('@') is an      *)
(* operation that can be got wrong.  A datetime is the number of           *)
(* microseconds since 2024-01-02T03:04:00; an ISO string is a sequence of  *)
(* one-character strings.                                                  *)
(***************************************************************************)
EXTENDS Integers, Sequences, FiniteSets, TLC

VARIABLES
    events,         \* table of Event rows, in insertion order
    logs,           \* table of Log rows, in insertion order
    executions,     \* Execution.id -> Deployment.id of the owning deployment
    request,        \* request_dict of _query_events
    filters,        \* argument / local `filters`
    sort,           \* argument / local `sort`: the dict in its iteration order
    range_filters,  \* argument / local `range_filters`
    count_query,    \* outcome of _build_count_query
    select_query,   \* outcome of _build_select_query
    params,         \* bound parameters {limit, offset} of the last execution
    total,          \* count_query.params(**params).scalar()
    ordered,        \* rows of the selection in ORDER BY order, before LIMIT/OFFSET
    rows,           \* select_query.params(**params).all()
    results,        \* envelope returned by _query_events
    raised,         \* exception that ended the call
    executed,       \* number of statements executed against the store by the call
    pc,             \* position of the call
    sql_event,      \* argument of _map_event_to_es
    include,        \* argument `_include` of _map_event_to_es
    event,          \* record returned by _map_event_to_es
    users,          \* ids of the users user_datastore holds
    authorization,  \* request.authorization
    token,          \* the token header of the request
    token_status,   \* tuple returned by get_token_status
    user,           \* value returned by user_loader
    user_tenants,   \* User.tenants: the direct tenants of each user, a list
    user_groups,    \* User.groups: the groups of each user
    group_tenants,  \* Group.tenants: the tenants of each group
    returned        \* value returned by the last membership read

storeVars == <<events, logs, executions>>
queryVars == <<filters, sort, range_filters, count_query, select_query,
               params, total, ordered, rows>>
callVars == <<request, results, raised, executed>>
mapVars == <<sql_event, include, event>>
authVars == <<users, authorization, token, token_status, user>>
memberVars == <<user_tenants, user_groups, group_tenants, returned>>
vars == <<events, logs, executions, request, filters, sort, range_filters,
          count_query, select_query, params, total, ordered, rows, results,
          raised, executed, pc, sql_event, include, event, users,
          authorization, token, token_status, user, user_tenants, user_groups,
          group_tenants, returned>>

----------------------------------------------------------------------------
(* Bounds *)

MaxEvents == 2
MaxLogs == 1

(* Program constants *)

DEFAULT_SEARCH_SIZE == 10000

----------------------------------------------------------------------------
(* Values *)

NULL == "NULL"
None == [none |-> TRUE]
NoTotal == 0 - 1

ExecutionIds == {"e1", "e2"}
DeploymentIds == {"d1", "d2"}

\* timestamps of stored rows, in microseconds after 2024-01-02T03:04:00
Times == {5000000, 5123456}

Fld(n, s) == [ats |-> n, name |-> s]
Plain(s) == Fld(0, s)

\* str.lstrip('@'): every leading `@` is dropped
Lstrip(field) == Fld(0, field.name)

\* ownership chains of the store: every execution belongs to one deployment
Ownerships ==
    { [e \in ExecutionIds |-> IF e = "e1" THEN "d1" ELSE d] : d \in DeploymentIds }

\* columns of the Event model that the resource reads
EventFields ==
    {"timestamp", "message", "message_code", "event_type", "operation",
     "node_id", "_execution_fk"}

\* columns of the Log model that the resource reads
LogFields ==
    {"timestamp", "message", "operation", "node_id", "logger", "level",
     "_execution_fk"}

ModelFields(model) == IF model = "Event" THEN EventFields ELSE LogFields

\* (execution, timestamp) of the events and of the logs that get written
EventStamps == {<<"e1", 5000000>>, <<"e1", 5123456>>, <<"e2", 5000000>>}
LogStamps == {<<"e1", 5123456>>, <<"e2", 5000000>>}

EventRows ==
    { [_execution_fk |-> s[1], timestamp |-> s[2], message |-> "m",
       message_code |-> NULL, event_type |-> "task_started",
       operation |-> "op", node_id |-> "n"] : s \in EventStamps }

LogRows ==
    { [_execution_fk |-> s[1], timestamp |-> s[2], message |-> "m",
       operation |-> "op", node_id |-> "n", logger |-> "ctx",
       level |-> "info"] : s \in LogStamps }

\* names of the columns both SELECTs project, in positional order
ColumnNames ==
    <<"timestamp", "deployment_id", "message", "message_code", "event_type",
      "operation", "node_id", "logger", "level", "type">>

Range(s) == {s[i] : i \in DOMAIN s}

----------------------------------------------------------------------------
(* Ordering of column values.  Strings are ranked in their collation       *)
(* order; NULL sorts after every value (PostgreSQL's NULLS LAST for ASC,   *)
(* NULLS FIRST for DESC).                                                  *)

StringRank(s) ==
    CASE s = "cloudify_event" -> 1
      [] s = "cloudify_log" -> 2
      [] s = "ctx" -> 3
      [] s = "d1" -> 4
      [] s = "d2" -> 5
      [] s = "e1" -> 6
      [] s = "e2" -> 7
      [] s = "info" -> 8
      [] s = "m" -> 9
      [] s = "n" -> 10
      [] s = "op" -> 11
      [] s = "task_started" -> 12
      [] OTHER -> 1000000000

ColumnKey(row, column) ==
    IF column = "timestamp" THEN row.timestamp ELSE StringRank(row[column])

IsNull(row, column) == column # "timestamp" /\ row[column] = NULL

----------------------------------------------------------------------------
(* Queries.  A single-table SELECT is [model, where]; `where` is a set of  *)
(* predicates [op, model, column, values, value] that are ANDed.  A built  *)
(* query is [raised, kind, from, union, order_by]: `from` holds the Event  *)
(* SELECT and, when cloudify_log is requested, the Log SELECT.             *)

BadParameters == "BadParameters"

Raise(error) ==
    [raised |-> error, kind |-> "", from |-> <<>>, union |-> FALSE,
     order_by |-> <<>>]

NoQuery == Raise("unbuilt")

IsBuilt(query) == query.raised = ""

\* (model, filter key) pairs whose model.id is constrained by an IN-list
ALLOWED_FILTERS == <<<<"Execution", "execution_id">>, <<"Deployment", "deployment_id">>>>

\* db.session.query(...).filter(<model>._execution_fk == Execution._storage_id,
\*                              Execution._deployment_fk == Deployment._storage_id)
JoinedSelect(model) == [raised |-> "", model |-> model, where |-> {}]

InPredicate(model, values) ==
    [op |-> "in", model |-> model, column |-> "id", values |-> values, value |-> 0]

RangePredicate(op, model, column, value) ==
    [op |-> op, model |-> model, column |-> column, values |-> {}, value |-> value]

\* ApplyFilters stopping after the first allowed filter
ApplyFiltersFirstOnly(query, fltrs) ==
    [query EXCEPT !.where = @ \cup
        { InPredicate(ALLOWED_FILTERS[i][1], fltrs.items[ALLOWED_FILTERS[i][2]]) :
            i \in { j \in {1} : ALLOWED_FILTERS[j][2] \in DOMAIN fltrs.items } }]

\* ApplyFilters passing over a filter whose value list is empty
ApplyFiltersSkippingEmpty(query, fltrs) ==
    [query EXCEPT !.where = @ \cup
        { InPredicate(ALLOWED_FILTERS[i][1], fltrs.items[ALLOWED_FILTERS[i][2]]) :
            i \in { j \in DOMAIN ALLOWED_FILTERS :
                        /\ ALLOWED_FILTERS[j][2] \in DOMAIN fltrs.items
                        /\ fltrs.items[ALLOWED_FILTERS[j][2]] # {} } }]

ApplyFilters(query, fltrs) ==
    [query EXCEPT !.where = @ \cup
        { InPredicate(ALLOWED_FILTERS[i][1], fltrs.items[ALLOWED_FILTERS[i][2]]) :
            i \in { j \in DOMAIN ALLOWED_FILTERS :
                        ALLOWED_FILTERS[j][2] \in DOMAIN fltrs.items } }]

ApplyRangeFilter(query, model, field, range_filter) ==
    [query EXCEPT !.where = @ \cup
        { RangePredicate(IF b = "from" THEN "ge" ELSE "le", model, field,
                         range_filter[b]) : b \in {"from", "to"} \cap DOMAIN range_filter }]

RECURSIVE ApplyRangeFilterItems(_, _, _, _)
ApplyRangeFilterItems(query, model, rfilters, todo) ==
    IF todo = {} THEN query
    ELSE LET field == CHOOSE f \in todo : TRUE
         IN ApplyRangeFilterItems(
                ApplyRangeFilter(query, model, Lstrip(field).name, rfilters[field]),
                model, rfilters, todo \ {field})

\* ApplyRangeFilters looking the field up on Event whatever the model
ApplyRangeFiltersOnEvent(query, model, rfilters) ==
    IF \E field \in DOMAIN rfilters : Lstrip(field).name \notin EventFields
    THEN [query EXCEPT !.raised = BadParameters]
    ELSE ApplyRangeFilterItems(query, model, rfilters, DOMAIN rfilters)

ApplyRangeFilters(query, model, rfilters) ==
    IF \E field \in DOMAIN rfilters : Lstrip(field).name \notin ModelFields(model)
    THEN [query EXCEPT !.raised = BadParameters]
    ELSE ApplyRangeFilterItems(query, model, rfilters, DOMAIN rfilters)

\* ApplySort without the lstrip('@')
ApplySortUnstripped(query, srt) ==
    LET column_names == Range(ColumnNames)
    IN IF \E i \in DOMAIN srt :
            srt[i][1].ats # 0 \/ srt[i][1].name \notin column_names
       THEN Raise(BadParameters)
       ELSE [query EXCEPT !.order_by = @ \o
                [i \in DOMAIN srt |->
                    <<srt[i][1].name,
                      IF srt[i][2] = "asc" THEN "asc" ELSE "desc">>]]

ApplySort(query, srt) ==
    LET column_names == Range(ColumnNames)
    IN IF \E i \in DOMAIN srt : Lstrip(srt[i][1]).name \notin column_names
       THEN Raise(BadParameters)
       ELSE [query EXCEPT !.order_by = @ \o
                [i \in DOMAIN srt |->
                    <<Lstrip(srt[i][1]).name,
                      IF srt[i][2] = "asc" THEN "asc" ELSE "desc">>]]

HasTypeFilter(fltrs) == fltrs.mapping /\ "type" \in DOMAIN fltrs.items

BuildSelectQuery(fltrs, pagination, srt, rfilters) ==
    IF ~HasTypeFilter(fltrs) THEN Raise(BadParameters)
    ELSE IF "cloudify_event" \notin fltrs.items["type"] THEN Raise(BadParameters)
    ELSE
        LET query == ApplyRangeFilters(
                        ApplyFilters(JoinedSelect("Event"), fltrs), "Event", rfilters)
            logs_query == ApplyRangeFilters(
                        ApplyFilters(JoinedSelect("Log"), fltrs), "Log", rfilters)
        IN  IF ~IsBuilt(query) THEN Raise(query.raised)
            ELSE IF "cloudify_log" \in fltrs.items["type"]
            THEN IF ~IsBuilt(logs_query) THEN Raise(logs_query.raised)
                 ELSE ApplySort(
                        [raised |-> "", kind |-> "select",
                         from |-> <<query, logs_query>>, union |-> TRUE,
                         order_by |-> <<>>], srt)
            ELSE ApplySort(
                    [raised |-> "", kind |-> "select", from |-> <<query>>,
                     union |-> FALSE, order_by |-> <<>>], srt)

\* BuildCountQuery that only asks for some type filter
BuildCountQueryAnyType(fltrs, rfilters) ==
    IF ~HasTypeFilter(fltrs) THEN Raise(BadParameters)
    ELSE
        LET events_query == ApplyRangeFilters(
                        ApplyFilters(JoinedSelect("Event"), fltrs), "Event", rfilters)
            logs_query == ApplyRangeFilters(
                        ApplyFilters(JoinedSelect("Log"), fltrs), "Log", rfilters)
        IN  IF ~IsBuilt(events_query) THEN Raise(events_query.raised)
            ELSE IF "cloudify_log" \in fltrs.items["type"]
            THEN IF ~IsBuilt(logs_query) THEN Raise(logs_query.raised)
                 ELSE [raised |-> "", kind |-> "count",
                       from |-> <<events_query, logs_query>>, union |-> FALSE,
                       order_by |-> <<>>]
            ELSE [raised |-> "", kind |-> "count", from |-> <<events_query>>,
                  union |-> FALSE, order_by |-> <<>>]

BuildCountQuery(fltrs, rfilters) ==
    IF ~HasTypeFilter(fltrs) THEN Raise(BadParameters)
    ELSE IF "cloudify_event" \notin fltrs.items["type"] THEN Raise(BadParameters)
    ELSE
        LET events_query == ApplyRangeFilters(
                        ApplyFilters(JoinedSelect("Event"), fltrs), "Event", rfilters)
            logs_query == ApplyRangeFilters(
                        ApplyFilters(JoinedSelect("Log"), fltrs), "Log", rfilters)
        IN  IF ~IsBuilt(events_query) THEN Raise(events_query.raised)
            ELSE IF "cloudify_log" \in fltrs.items["type"]
            THEN IF ~IsBuilt(logs_query) THEN Raise(logs_query.raised)
                 ELSE [raised |-> "", kind |-> "count",
                       from |-> <<events_query, logs_query>>, union |-> FALSE,
                       order_by |-> <<>>]
            ELSE [raised |-> "", kind |-> "count", from |-> <<events_query>>,
                  union |-> FALSE, order_by |-> <<>>]

----------------------------------------------------------------------------
(* Execution of a built query against the store. *)

\* the implicit join Event/Log -> Execution -> Deployment
Joined(table, ex) ==
    [i \in DOMAIN table |->
        [row |-> table[i],
         execution |-> [id |-> table[i]._execution_fk],
         deployment |-> [id |-> ex[table[i]._execution_fk]]]]

\* Holds with the bounds of a range left out of it
HoldsStrictly(p, jr) ==
    CASE p.op = "in" ->
            (IF p.model = "Execution" THEN jr.execution.id ELSE jr.deployment.id)
                \in p.values
      [] p.op = "ge" ->
            ~IsNull(jr.row, p.column) /\ ColumnKey(jr.row, p.column) > p.value
      [] p.op = "le" ->
            ~IsNull(jr.row, p.column) /\ ColumnKey(jr.row, p.column) < p.value

Holds(p, jr) ==
    CASE p.op = "in" ->
            (IF p.model = "Execution" THEN jr.execution.id ELSE jr.deployment.id)
                \in p.values
      [] p.op = "ge" ->
            ~IsNull(jr.row, p.column) /\ ColumnKey(jr.row, p.column) >= p.value
      [] p.op = "le" ->
            ~IsNull(jr.row, p.column) /\ ColumnKey(jr.row, p.column) <= p.value

Matching(query, ev, lg, ex) ==
    SelectSeq(Joined(IF query.model = "Event" THEN ev ELSE lg, ex),
              LAMBDA jr : \A p \in query.where : Holds(p, jr))

\* the ten projected columns of a joined row
Project(jr, model) ==
    IF model = "Event"
    THEN [timestamp |-> jr.row.timestamp, deployment_id |-> jr.deployment.id,
          message |-> jr.row.message, message_code |-> jr.row.message_code,
          event_type |-> jr.row.event_type, operation |-> jr.row.operation,
          node_id |-> jr.row.node_id, logger |-> NULL, level |-> NULL,
          type |-> "cloudify_event"]
    ELSE [timestamp |-> jr.row.timestamp, deployment_id |-> jr.deployment.id,
          message |-> jr.row.message, message_code |-> NULL,
          event_type |-> NULL, operation |-> jr.row.operation,
          node_id |-> jr.row.node_id, logger |-> jr.row.logger,
          level |-> jr.row.level, type |-> "cloudify_log"]

Projected(query, ev, lg, ex) ==
    LET m == Matching(query, ev, lg, ex)
    IN [i \in DOMAIN m |-> Project(m[i], query.model)]

RECURSIVE Distinct(_)
Distinct(s) ==
    IF s = <<>> THEN <<>>
    ELSE <<Head(s)>> \o SelectSeq(Distinct(Tail(s)), LAMBDA r : r # Head(s))

\* query.union(logs_query): SQL UNION, which drops duplicate rows
Union(a, b) == Distinct(a \o b)

\* rows of the selection before ORDER BY, LIMIT and OFFSET
SelectSource(query, ev, lg, ex) ==
    IF query.union
    THEN Union(Projected(query.from[1], ev, lg, ex),
               Projected(query.from[2], ev, lg, ex))
    ELSE Projected(query.from[1], ev, lg, ex)

RECURSIVE Precedes(_, _, _)
\* a comes strictly before b under ORDER BY order_by
Precedes(a, b, order_by) ==
    IF order_by = <<>> THEN FALSE
    ELSE LET ka == ColumnKey(a, Head(order_by)[1])
             kb == ColumnKey(b, Head(order_by)[1])
         IN IF ka = kb THEN Precedes(a, b, Tail(order_by))
            ELSE IF Head(order_by)[2] = "asc" THEN ka < kb ELSE ka > kb

IsOrderedBy(s, order_by) ==
    \A i, j \in DOMAIN s : i < j => ~Precedes(s[j], s[i], order_by)

RemoveAt(s, i) == SubSeq(s, 1, i - 1) \o SubSeq(s, i + 1, Len(s))

RECURSIVE Orderings(_, _)
\* every order the store may return the rows in: ORDER BY leaves ties open.
\* A row that no other row precedes comes first, the rest follows likewise.
Orderings(s, order_by) ==
    IF s = <<>> THEN {<<>>}
    ELSE UNION {
            { <<s[i]>> \o t : t \in Orderings(RemoveAt(s, i), order_by) } :
            i \in { k \in DOMAIN s :
                    /\ \A j \in DOMAIN s : ~Precedes(s[j], s[k], order_by)
                    /\ \A j \in 1..(k - 1) : s[j] # s[k] } }

Min(a, b) == IF a < b THEN a ELSE b

\* LIMIT :limit OFFSET :offset
Window(s, p) == SubSeq(s, p.offset + 1, Min(Len(s), p.offset + p.limit))

\* Scalar counting the rows of the window only
ScalarOfWindow(query, p, ev, lg, ex) ==
    Min(p.limit,
        Len(Matching(query.from[1], ev, lg, ex))
        + (IF Len(query.from) = 2 THEN Len(Matching(query.from[2], ev, lg, ex))
           ELSE 0))

\* count_query.params(**params).scalar()
Scalar(query, p, ev, lg, ex) ==
    Len(Matching(query.from[1], ev, lg, ex))
    + (IF Len(query.from) = 2 THEN Len(Matching(query.from[2], ev, lg, ex)) ELSE 0)

----------------------------------------------------------------------------
(* Inputs of the builders *)

Absent == {"<absent>"}

EmptyDict == [k \in {} |-> {}]

\* a dict with the keys whose value is given
FilterDict(type, execution_id, deployment_id) ==
    LET given == [type |-> type, execution_id |-> execution_id,
                  deployment_id |-> deployment_id]
    IN [mapping |-> TRUE,
        items |-> [k \in {k \in DOMAIN given : given[k] # Absent} |-> given[k]]]

\* a `filters` argument that is no dict
NotADict == [mapping |-> FALSE, items |-> EmptyDict]

TypeLists == SUBSET {"cloudify_event", "cloudify_log"}

FilterSets ==
    {NotADict} \cup
    { FilterDict(t, e, d) :
        t \in TypeLists \cup {Absent},
        e \in (SUBSET ExecutionIds) \cup {Absent},
        d \in (SUBSET DeploymentIds) \cup {Absent} }

TypedFilterSets ==
    { FilterDict(t, e, Absent) :
        t \in {{"cloudify_event"}, {"cloudify_event", "cloudify_log"}},
        e \in {Absent, {"e1"}} }

\* {}, {'from': t}, {'to': t}, {'from': t, 'to': u}
RangeBounds == UNION { [K -> Times] : K \in SUBSET {"from", "to"} }

RangeFilterSets ==
    {EmptyDict}
    \cup { f :> b : f \in {Plain("timestamp"), Fld(1, "timestamp")}, b \in RangeBounds }
    \cup { f :> EmptyDict :
            f \in {Plain("message_code"), Plain("logger"), Plain("bogus")} }
    \cup { (Plain("timestamp") :> b) @@ (f :> EmptyDict) :
            b \in [{"from"} -> Times],
            f \in {Plain("message_code"), Plain("logger"), Plain("bogus")} }

SortEntries ==
    { <<f, o>> :
        f \in {Plain("timestamp"), Fld(1, "timestamp"), Fld(2, "timestamp"),
               Plain("deployment_id"), Plain("type"), Plain("bogus")},
        o \in {"asc", "desc"} }

\* dicts of one or two sort fields, in every iteration order
SortSpecs ==
    { <<e>> : e \in SortEntries }
    \cup { s \in { <<a, b>> : a, b \in
                    { e \in SortEntries :
                        e[1] \in {Plain("timestamp"), Plain("deployment_id")}
                        \/ e = <<Plain("bogus"), "asc">> } } :
            s[1][1] # s[2][1] }

Limits == {0, 1, DEFAULT_SEARCH_SIZE}
Offsets == {0, 1}
Paginations == [limit : Limits, offset : Offsets]
NoParams == [limit |-> 0, offset |-> 0]

\* arguments that vary the filters, the range filters and the sort, the
\* first two under the documented sort {'timestamp': 'asc'}
TimestampSort == << <<Plain("timestamp"), "asc">> >>

FilterArgs ==
    [filters : FilterSets, range_filters : {EmptyDict}, sort : {TimestampSort}]
RangeArgs ==
    [filters : TypedFilterSets, range_filters : RangeFilterSets,
     sort : {TimestampSort}]
SortArgs ==
    [filters : { f \in TypedFilterSets : DOMAIN f.items = {"type"} },
     range_filters : {EmptyDict}, sort : SortSpecs]

RECURSIVE IsSorted(_)
IsSorted(s) ==
    Len(s) < 2 \/ (StringRank(s[1]._execution_fk) * 100000000 + s[1].timestamp
                     <= StringRank(s[2]._execution_fk) * 100000000 + s[2].timestamp
                   /\ IsSorted(Tail(s)))

\* tables of at most n rows; one insertion order stands for every order of
\* the same rows
Tables(kinds, n) ==
    { t \in UNION { [1..k -> kinds] : k \in 0..n } : IsSorted(t) }

----------------------------------------------------------------------------
(* The builders called on their own, then executed with bound parameters *)

EmptyMap == [k \in {} |-> <<>>]

IdleAuth ==
    /\ users = {}
    /\ authorization = None
    /\ token = None
    /\ token_status = None
    /\ user = None

IdleMembers ==
    /\ user_tenants = EmptyMap
    /\ user_groups = EmptyMap
    /\ group_tenants = EmptyMap
    /\ returned = None

IdleCall ==
    /\ request = None
    /\ results = None
    /\ raised = ""
    /\ executed = 0

IdleMap ==
    /\ sql_event = None
    /\ include = None
    /\ event = None

InitBuild(args) ==
    /\ events \in Tables(EventRows, MaxEvents)
    /\ logs \in Tables(LogRows, MaxLogs)
    /\ executions \in Ownerships
    /\ \E a \in args :
        /\ filters = a.filters
        /\ range_filters = a.range_filters
        /\ sort = a.sort
    /\ count_query = NoQuery
    /\ select_query = NoQuery
    /\ params = NoParams
    /\ total = NoTotal
    /\ ordered = <<>>
    /\ rows = <<>>
    /\ pc = "args"
    /\ IdleCall
    /\ IdleAuth
    /\ IdleMembers
    /\ IdleMap

CallBuildCountQuery ==
    /\ pc = "args"
    /\ count_query' = BuildCountQuery(filters, range_filters)
    /\ pc' = "count_built"
    /\ UNCHANGED <<authVars, memberVars>>
    /\ UNCHANGED <<storeVars, callVars, mapVars, filters, sort, range_filters,
                   select_query, params, total, ordered, rows>>

CallBuildSelectQuery ==
    /\ pc = "count_built"
    /\ select_query' = BuildSelectQuery(filters, params, sort, range_filters)
    /\ pc' = "built"
    /\ UNCHANGED <<authVars, memberVars>>
    /\ UNCHANGED <<storeVars, callVars, mapVars, filters, sort, range_filters,
                   count_query, params, total, ordered, rows>>

\* count_query.params(**p).scalar() and select_query.params(**p).all()
ExecuteQueries(p) ==
    /\ pc \in {"built", "executed"}
    /\ IsBuilt(count_query) /\ IsBuilt(select_query)
    /\ params' = p
    /\ total' = Scalar(count_query, p, events, logs, executions)
    /\ ordered' \in Orderings(SelectSource(select_query, events, logs, executions),
                              select_query.order_by)
    /\ rows' = Window(ordered', p)
    /\ pc' = "executed"
    /\ UNCHANGED <<authVars, memberVars>>
    /\ UNCHANGED <<storeVars, callVars, mapVars, filters, sort, range_filters,
                   count_query, select_query>>

NextBuild ==
    \/ CallBuildCountQuery
    \/ CallBuildSelectQuery
    \/ \E p \in Paginations : ExecuteQueries(p)

SpecFilters == InitBuild(FilterArgs) /\ [][NextBuild]_vars
SpecRange == InitBuild(RangeArgs) /\ [][NextBuild]_vars
SpecSort == InitBuild(SortArgs) /\ [][NextBuild]_vars

----------------------------------------------------------------------------
(* The result mapper *)

Digit(d) == <<"0", "1", "2", "3", "4", "5", "6", "7", "8", "9">>[d + 1]

RECURSIVE Digits(_, _)
\* n in decimal, zero-padded to width characters
Digits(n, width) ==
    IF width = 0 THEN <<>>
    ELSE Append(Digits(n \div 10, width - 1), Digit(n % 10))

\* "2024-01-02T03:04:"
DatePrefix ==
    <<"2", "0", "2", "4", "-", "0", "1", "-", "0", "2", "T",
      "0", "3", ":", "0", "4", ":">>

\* datetime.isoformat(): the microseconds are left out when they are zero
Isoformat(value) ==
    LET second == value \div 1000000
        microsecond == value % 1000000
    IN DatePrefix \o Digits(second, 2)
       \o (IF microsecond = 0 THEN <<>> ELSE <<".">> \o Digits(microsecond, 6))

\* '{}Z'.format(value.isoformat()[:-3])
FormatDatetime(value) ==
    LET iso == Isoformat(value)
    IN SubSeq(iso, 1, Len(iso) - 3) \o <<"Z">>

\* keys of the working record whose value is a datetime
DatetimeKeys == {"timestamp", "@timestamp"}

context_fields == <<"deployment_id", "operation", "node_id">>

Restrict(f, keys) == [k \in DOMAIN f \cap keys |-> f[k]]

Included(keys) == [none |-> FALSE, keys |-> keys]

\* MapEventToEs leaving the placeholders of the other type in the record
MapEventToEsKeepingPlaceholders(incl, row) ==
    LET copied == [attr \in Range(ColumnNames) |-> row[attr]]
        stamped == copied @@ ("@timestamp" :> copied["timestamp"])
        wrapped == [stamped EXCEPT !["message"] = [text |-> stamped["message"]]]
        context == [field \in Range(context_fields) |-> wrapped[field]]
        grouped == Restrict(wrapped @@ ("context" :> context),
                            (DOMAIN wrapped \cup {"context"}) \ Range(context_fields))
        shaped ==
            IF grouped["type"] = "cloudify_event"
            THEN [grouped EXCEPT !["message"] =
                     [text |-> grouped["message"].text, arguments |-> None]]
            ELSE grouped
        formatted ==
            [key \in DOMAIN shaped |->
                IF key \in DatetimeKeys THEN FormatDatetime(shaped[key])
                ELSE shaped[key]]
    IN IF ~incl.none THEN Restrict(formatted, incl.keys) ELSE formatted

\* MapEventToEs returning the whole record whatever _include is
MapEventToEsUnfiltered(incl, row) ==
    LET copied == [attr \in Range(ColumnNames) |-> row[attr]]
        stamped == copied @@ ("@timestamp" :> copied["timestamp"])
        wrapped == [stamped EXCEPT !["message"] = [text |-> stamped["message"]]]
        context == [field \in Range(context_fields) |-> wrapped[field]]
        grouped == Restrict(wrapped @@ ("context" :> context),
                            (DOMAIN wrapped \cup {"context"}) \ Range(context_fields))
        shaped ==
            IF grouped["type"] = "cloudify_event"
            THEN Restrict([grouped EXCEPT !["message"] =
                              [text |-> grouped["message"].text, arguments |-> None]],
                          DOMAIN grouped \ {"logger", "level"})
            ELSE IF grouped["type"] = "cloudify_log"
            THEN Restrict(grouped, DOMAIN grouped \ {"event_type"})
            ELSE grouped
    IN [key \in DOMAIN shaped |->
            IF key \in DatetimeKeys THEN FormatDatetime(shaped[key])
            ELSE shaped[key]]

MapEventToEs(incl, row) ==
    LET copied == [attr \in Range(ColumnNames) |-> row[attr]]
        stamped == copied @@ ("@timestamp" :> copied["timestamp"])
        wrapped == [stamped EXCEPT !["message"] = [text |-> stamped["message"]]]
        context == [field \in Range(context_fields) |-> wrapped[field]]
        grouped == Restrict(wrapped @@ ("context" :> context),
                            (DOMAIN wrapped \cup {"context"}) \ Range(context_fields))
        shaped ==
            IF grouped["type"] = "cloudify_event"
            THEN Restrict([grouped EXCEPT !["message"] =
                              [text |-> grouped["message"].text, arguments |-> None]],
                          DOMAIN grouped \ {"logger", "level"})
            ELSE IF grouped["type"] = "cloudify_log"
            THEN Restrict(grouped, DOMAIN grouped \ {"event_type"})
            ELSE grouped
        formatted ==
            [key \in DOMAIN shaped |->
                IF key \in DatetimeKeys THEN FormatDatetime(shaped[key])
                ELSE shaped[key]]
    IN IF ~incl.none THEN Restrict(formatted, incl.keys) ELSE formatted

\* sub-second parts: every millisecond of Millis with every remainder of SubMillis
Millis == {0, 1, 123, 999}
SubMillis == {0, 1, 456, 999}
Seconds == {0, 5, 59}

MapTimes ==
    { sec * 1000000 + ms * 1000 + sub :
        sec \in Seconds, ms \in Millis, sub \in SubMillis }

\* unified rows as the selection returns them
MapRows ==
    { Project([row |-> [r EXCEPT !.timestamp = t],
               execution |-> [id |-> r._execution_fk],
               deployment |-> [id |-> "d1"]], "Event") :
        r \in EventRows, t \in MapTimes }
    \cup
    { Project([row |-> [r EXCEPT !.timestamp = t],
               execution |-> [id |-> r._execution_fk],
               deployment |-> [id |-> "d1"]], "Log") :
        r \in LogRows, t \in MapTimes }

Includes ==
    {None, Included({"message", "@timestamp"}), Included({"timestamp", "logger"})}

IdleQuery ==
    /\ filters = NotADict
    /\ sort = <<>>
    /\ range_filters = EmptyDict
    /\ count_query = NoQuery
    /\ select_query = NoQuery
    /\ params = NoParams
    /\ total = NoTotal
    /\ ordered = <<>>
    /\ rows = <<>>

InitMap ==
    /\ events = <<>>
    /\ logs = <<>>
    /\ executions \in Ownerships
    /\ IdleQuery
    /\ IdleCall
    /\ IdleAuth
    /\ IdleMembers
    /\ sql_event \in MapRows
    /\ include \in Includes
    /\ event = None
    /\ pc = "row"

CallMapEventToEs ==
    /\ pc = "row"
    /\ event' = MapEventToEs(include, sql_event)
    /\ pc' = "mapped"
    /\ UNCHANGED <<authVars, memberVars>>
    /\ UNCHANGED <<storeVars, queryVars, callVars, sql_event, include>>

NextMap == CallMapEventToEs

SpecMap == InitMap /\ [][NextMap]_vars

----------------------------------------------------------------------------
(* _query_events: one request at a time, while other sessions append       *)
(* events and logs.  Each statement sent to the store is one step.         *)

NoSize == 0 - 1

\* entries {<field>: {'order': <order>}} of the request's `sort` list
RequestSortEntries ==
    { <<Plain("timestamp"), "asc">>, <<Plain("timestamp"), "desc">>,
      <<Plain("type"), "desc">>, <<Plain("bogus"), "asc">> }

\* lists of at most two entries; a list of two mixes the directions
RequestSorts ==
    {<<>>} \cup { <<a>> : a \in RequestSortEntries }
    \cup { s \in { <<a, b>> : a, b \in RequestSortEntries } :
            s[1] # s[2] /\ s[1][1] # Plain("bogus") /\ s[1][2] # s[2][2] }

\* query.bool.should: absent, an empty list, or a list of clauses
Shoulds ==
    { [present |-> FALSE, clauses |-> 0], [present |-> TRUE, clauses |-> 0],
      [present |-> TRUE, clauses |-> 1] }

\* request_dict: `should` is the `should` key of query.bool,
\* execution_id is query.bool.must[0].match['context.execution_id'],
\* size is NoSize when the key is absent
Requests ==
    { r \in [should : Shoulds, execution_id : ExecutionIds, size : {NoSize, 1},
             from : Offsets, sort : RequestSorts] :
        r.size = NoSize => r.from = 0 }

\* {field: value['order'] for es_sort in request_dict['sort'] ...}: a later
\* entry of a field replaces the order of an earlier one
SortDict(es_sorts) ==
    [field \in { es_sorts[i][1] : i \in DOMAIN es_sorts } |->
        LET last == CHOOSE i \in DOMAIN es_sorts :
                        /\ es_sorts[i][1] = field
                        /\ \A j \in DOMAIN es_sorts : es_sorts[j][1] = field => j <= i
        IN es_sorts[last][2]]

\* the orders in which a dict may hand out its items: the order of a dict
\* does not follow the order of insertion
DictItems(d) ==
    { t \in [1..Cardinality(DOMAIN d) -> { <<k, d[k]>> : k \in DOMAIN d }] :
        \A i, j \in DOMAIN t : t[i] = t[j] => i = j }

Init ==
    /\ events = <<>>
    /\ logs = <<>>
    /\ executions \in Ownerships
    /\ IdleQuery
    /\ IdleCall
    /\ IdleAuth
    /\ IdleMembers
    /\ IdleMap
    /\ pc = "idle"

\* another session commits an event
InsertEvent(row) ==
    /\ Len(events) < MaxEvents
    /\ events' = Append(events, row)
    /\ UNCHANGED <<authVars, memberVars>>
    /\ UNCHANGED <<logs, executions, queryVars, callVars, mapVars, pc>>

\* another session commits a log
InsertLog(row) ==
    /\ Len(logs) < MaxLogs
    /\ logs' = Append(logs, row)
    /\ UNCHANGED <<authVars, memberVars>>
    /\ UNCHANGED <<events, executions, queryVars, callVars, mapVars, pc>>

\* QueryEventsBegin asking for logs only when `should` has clauses
QueryEventsBeginShouldClauses(request_dict) ==
    /\ pc = "idle"
    /\ request' = request_dict
    /\ filters' =
        IF request_dict.should.clauses > 0
        THEN FilterDict({"cloudify_event", "cloudify_log"},
                        {request_dict.execution_id}, Absent)
        ELSE FilterDict({"cloudify_event"}, {request_dict.execution_id}, Absent)
    /\ params' =
        [limit |-> IF request_dict.size = NoSize THEN DEFAULT_SEARCH_SIZE
                   ELSE request_dict.size,
         offset |-> request_dict.from]
    /\ sort' \in DictItems(SortDict(request_dict.sort))
    /\ range_filters' = EmptyDict
    /\ pc' = "count"
    /\ UNCHANGED <<authVars, memberVars>>
    /\ UNCHANGED <<storeVars, mapVars, count_query, select_query, total,
                   ordered, rows, results, raised, executed>>

\* the request is read and the arguments of the builders are derived
QueryEventsBegin(request_dict) ==
    /\ pc = "idle"
    /\ request' = request_dict
    /\ filters' =
        IF request_dict.should.present
        THEN FilterDict({"cloudify_event", "cloudify_log"},
                        {request_dict.execution_id}, Absent)
        ELSE FilterDict({"cloudify_event"}, {request_dict.execution_id}, Absent)
    /\ params' =
        [limit |-> IF request_dict.size = NoSize THEN DEFAULT_SEARCH_SIZE
                   ELSE request_dict.size,
         offset |-> request_dict.from]
    /\ sort' \in DictItems(SortDict(request_dict.sort))
    /\ range_filters' = EmptyDict
    /\ pc' = "count"
    /\ UNCHANGED <<authVars, memberVars>>
    /\ UNCHANGED <<storeVars, mapVars, count_query, select_query, total,
                   ordered, rows, results, raised, executed>>

\* count_query = self._build_count_query(...); total = count_query...scalar()
QueryEventsCount ==
    /\ pc = "count"
    /\ count_query' = BuildCountQuery(filters, range_filters)
    /\ IF IsBuilt(count_query')
       THEN /\ total' = Scalar(count_query', params, events, logs, executions)
            /\ executed' = executed + 1
            /\ pc' = "select"
            /\ UNCHANGED raised
       ELSE /\ raised' = count_query'.raised
            /\ pc' = "done"
            /\ UNCHANGED <<total, executed>>
    /\ UNCHANGED <<authVars, memberVars>>
    /\ UNCHANGED <<storeVars, mapVars, request, filters, sort, range_filters,
                   select_query, params, ordered, rows, results>>

\* select_query = self._build_select_query(...); the rows are fetched,
\* mapped and wrapped
QueryEventsSelect ==
    /\ pc = "select"
    /\ select_query' = BuildSelectQuery(filters, params, sort, range_filters)
    /\ IF IsBuilt(select_query')
       THEN /\ ordered' \in Orderings(
                    SelectSource(select_query', events, logs, executions),
                    select_query'.order_by)
            /\ rows' = Window(ordered', params)
            /\ executed' = executed + 1
            /\ results' =
                [hits |->
                    [hits |-> [i \in DOMAIN rows' |->
                                [_source |-> MapEventToEs(None, rows'[i])]],
                     total |-> total]]
            /\ UNCHANGED raised
       ELSE /\ raised' = select_query'.raised
            /\ UNCHANGED <<ordered, rows, executed, results>>
    /\ pc' = "done"
    /\ UNCHANGED <<authVars, memberVars>>
    /\ UNCHANGED <<storeVars, mapVars, request, filters, sort, range_filters,
                   count_query, params, total>>

\* the response (or the error) is sent; the next request starts afresh
QueryEventsReturn ==
    /\ pc = "done"
    /\ request' = None
    /\ filters' = NotADict
    /\ sort' = <<>>
    /\ range_filters' = EmptyDict
    /\ count_query' = NoQuery
    /\ select_query' = NoQuery
    /\ params' = NoParams
    /\ total' = NoTotal
    /\ ordered' = <<>>
    /\ rows' = <<>>
    /\ results' = None
    /\ raised' = ""
    /\ executed' = 0
    /\ pc' = "idle"
    /\ UNCHANGED <<authVars, memberVars>>
    /\ UNCHANGED <<storeVars, mapVars>>

Next ==
    \/ \E row \in EventRows : InsertEvent(row)
    \/ \E row \in LogRows : InsertLog(row)
    \/ \E request_dict \in Requests : QueryEventsBegin(request_dict)
    \/ QueryEventsCount
    \/ QueryEventsSelect
    \/ QueryEventsReturn

Spec == Init /\ [][Next]_vars

\* _query_events against a store that no other session writes to
InitRequest ==
    /\ events \in Tables(EventRows, MaxEvents)
    /\ logs \in Tables(LogRows, MaxLogs)
    /\ executions \in Ownerships
    /\ IdleQuery
    /\ IdleCall
    /\ IdleAuth
    /\ IdleMembers
    /\ IdleMap
    /\ pc = "idle"

NextRequest ==
    \/ \E request_dict \in Requests : QueryEventsBegin(request_dict)
    \/ QueryEventsCount
    \/ QueryEventsSelect
    \/ QueryEventsReturn

SpecRequest == InitRequest /\ [][NextRequest]_vars

----------------------------------------------------------------------------
(* Token authentication (security/user_handler.py).  A token is            *)
(* [kind, data]: what the serializer makes of it and the payload it        *)
(* carries; the payload of a token the service issues is a list whose      *)
(* first item is a user id.                                                *)

UserIds == {1, 2}

Username(id) == IF id = 1 THEN "alice" ELSE "bob"

Usernames == { Username(id) : id \in UserIds } \cup {"carol"}

UserOf(id) == [none |-> FALSE, id |-> id, username |-> Username(id)]

Payload(items) == [none |-> FALSE, items |-> items]

\* payloads: an empty list, and lists headed by the id of a user that may
\* or may not be in the datastore
Payloads == {Payload(<<>>)} \cup { Payload(<<id, "hash">>) : id \in UserIds }

\* None when the header is missing, else what arrives in the header
Tokens ==
    {[kind |-> "absent", data |-> None],
     [kind |-> "malformed", data |-> None]}
    \cup [kind : {"tampered", "expired", "signed"}, data : Payloads]

Authorizations ==
    {None} \cup { [none |-> FALSE, username |-> n] : n \in Usernames }

Returns(value) == [raises |-> "", value |-> value]
Raises(error) == [raises |-> error, value |-> None]

\* serializer.loads(token, max_age=max_age): the signature is verified
\* first, then the age; None is no string
Loads(tok) ==
    CASE tok.kind = "absent" -> Raises("TypeError")
      [] tok.kind \in {"malformed", "tampered"} -> Raises("BadSignature")
      [] tok.kind = "expired" -> Raises("SignatureExpired")
      [] OTHER -> Returns(tok.data)

\* truth value of `data`
Truthy(data) == ~data.none /\ data.items # <<>>

\* user_datastore.find_user(id=...)
FindUser(store, id) == IF id \in store THEN UserOf(id) ELSE None

\* user_datastore.get_user(username)
GetUser(store, username) ==
    IF \E id \in store : Username(id) = username
    THEN UserOf(CHOOSE id \in store : Username(id) = username)
    ELSE None

\* GetTokenStatus reading the payload of an expired token all the same
GetTokenStatusReadingExpired(tok, store) ==
    LET loaded == Loads(tok)
        data == IF loaded.raises \in {"", "SignatureExpired"} THEN tok.data
                ELSE None
        expired == loaded.raises = "SignatureExpired"
        invalid == loaded.raises \in {"BadSignature", "TypeError", "ValueError"}
        found == IF Truthy(data) THEN FindUser(store, data.items[1]) ELSE None
    IN [expired |-> expired, invalid |-> invalid, user |-> found, data |-> data]

GetTokenStatus(tok, store) ==
    LET loaded == Loads(tok)
        data == IF loaded.raises = "" THEN loaded.value ELSE None
        expired == loaded.raises = "SignatureExpired"
        invalid == loaded.raises \in {"BadSignature", "TypeError", "ValueError"}
        found == IF Truthy(data) THEN FindUser(store, data.items[1]) ELSE None
    IN [expired |-> expired, invalid |-> invalid, user |-> found, data |-> data]

UserLoader(auth, tok, store) ==
    IF ~auth.none THEN GetUser(store, auth.username)
    ELSE GetTokenStatus(tok, store).user

InitAuth ==
    /\ events = <<>>
    /\ logs = <<>>
    /\ executions \in Ownerships
    /\ IdleQuery
    /\ IdleCall
    /\ IdleMap
    /\ IdleMembers
    /\ users \in SUBSET UserIds
    /\ authorization \in Authorizations
    /\ token \in Tokens
    /\ token_status = None
    /\ user = None
    /\ pc = "request"

CallGetTokenStatus ==
    /\ pc = "request"
    /\ token_status' = GetTokenStatus(token, users)
    /\ pc' = "status"
    /\ UNCHANGED <<storeVars, queryVars, callVars, mapVars, memberVars,
                   users, authorization, token, user>>

CallUserLoader ==
    /\ pc \in {"request", "status"}
    /\ user' = UserLoader(authorization, token, users)
    /\ pc' = "loaded"
    /\ UNCHANGED <<storeVars, queryVars, callVars, mapVars, memberVars,
                   users, authorization, token, token_status>>

NextAuth ==
    \/ CallGetTokenStatus
    \/ CallUserLoader

SpecAuth == InitAuth /\ [][NextAuth]_vars

----------------------------------------------------------------------------
(* Tenant membership (storage/management_models.py).  User.tenants is the  *)
(* list of the association rows user-tenant, and Tenant.users is the other *)
(* side of the same association; User.groups and Group.tenants are the     *)
(* associations user-group and group-tenant.                               *)

MaxDirect == 3

TenantNames == {"t1", "t2"}
GroupNames == {"g1", "g2"}

\* User.tenants and Group.tenants as they are before any read
DirectTenants == {<<>>, <<"t1">>}
GroupTenants == {{}, {"t1"}, {"t1", "t2"}}

RECURSIVE SetToSeq(_)
\* the items of a collection in the order it hands them out
SetToSeq(S) ==
    IF S = {} THEN <<>>
    ELSE LET x == CHOOSE y \in S : TRUE IN <<x>> \o SetToSeq(S \ {x})

RECURSIVE Flatten(_)
Flatten(ss) == IF ss = <<>> THEN <<>> ELSE Head(ss) \o Flatten(Tail(ss))

\* Tenant.groups and Group.users, the other sides of the associations
TenantGroups(tenant, gt) == { g \in DOMAIN gt : tenant \in gt[g] }
GroupUsers(group, ug) == { u \in DOMAIN ug : group \in ug[u] }

\* Tenant.users
TenantUsers(tenant, ut) == { u \in DOMAIN ut : tenant \in Range(ut[u]) }

\* tenant_list after `for group in self.groups: for tenant in group.tenants:
\* tenant_list.append(tenant)`, tenant_list being self.tenants itself
TenantListAfterAllTenants(u, ut, ug, gt) ==
    LET groups == SetToSeq(ug[u])
    IN ut[u] \o Flatten([i \in DOMAIN groups |-> SetToSeq(gt[groups[i]])])

\* User.tenants of every user after Tenant.all_users of `tenant`:
\* users_list is self.users itself, and each append adds the association
UserTenantsAfterAllUsers(tenant, ut, ug, gt) ==
    [u \in DOMAIN ut |->
        ut[u] \o [i \in 1..Cardinality({ g \in TenantGroups(tenant, gt) :
                                            u \in GroupUsers(g, ug) }) |-> tenant]]

\* list(set(...))
ListOfSet(s) == SetToSeq(Range(s))

Role(id) == IF id = 1 THEN "admin" ELSE "user"

Fits(ut) == \A u \in DOMAIN ut : Len(ut[u]) <= MaxDirect

InitMembers ==
    /\ events = <<>>
    /\ logs = <<>>
    /\ executions \in Ownerships
    /\ IdleQuery
    /\ IdleCall
    /\ IdleMap
    /\ IdleAuth
    /\ user_tenants \in [UserIds -> DirectTenants]
    /\ user_groups \in [UserIds -> SUBSET GroupNames]
    /\ group_tenants \in [GroupNames -> GroupTenants]
    /\ returned = None
    /\ pc = "members"

\* user.all_tenants
ReadAllTenants(u) ==
    /\ pc = "members"
    /\ user_tenants' =
        [user_tenants EXCEPT ![u] =
            TenantListAfterAllTenants(u, user_tenants, user_groups, group_tenants)]
    /\ Fits(user_tenants')
    /\ returned' = [kind |-> "all_tenants", of |-> u,
                    value |-> ListOfSet(user_tenants'[u])]
    /\ UNCHANGED <<storeVars, queryVars, callVars, mapVars, authVars, pc,
                   user_groups, group_tenants>>

\* tenant.all_users
ReadAllUsers(tenant) ==
    /\ pc = "members"
    /\ user_tenants' =
        UserTenantsAfterAllUsers(tenant, user_tenants, user_groups, group_tenants)
    /\ Fits(user_tenants')
    /\ returned' = [kind |-> "all_users", of |-> tenant,
                    value |-> SetToSeq(TenantUsers(tenant, user_tenants'))]
    /\ UNCHANGED <<storeVars, queryVars, callVars, mapVars, authVars, pc,
                   user_groups, group_tenants>>

\* user.to_response()
UserToResponse(u) ==
    /\ pc = "members"
    /\ user_tenants' =
        [user_tenants EXCEPT ![u] =
            TenantListAfterAllTenants(u, user_tenants, user_groups, group_tenants)]
    /\ Fits(user_tenants')
    /\ returned' = [kind |-> "user", of |-> u,
                    value |-> [tenants |-> Range(user_tenants'[u]),
                               groups |-> user_groups[u], role |-> Role(u)]]
    /\ UNCHANGED <<storeVars, queryVars, callVars, mapVars, authVars, pc,
                   user_groups, group_tenants>>

\* tenant.to_response()
TenantToResponse(tenant) ==
    /\ pc = "members"
    /\ user_tenants' =
        UserTenantsAfterAllUsers(tenant, user_tenants, user_groups, group_tenants)
    /\ Fits(user_tenants')
    /\ returned' = [kind |-> "tenant", of |-> tenant,
                    value |-> [groups |-> TenantGroups(tenant, group_tenants),
                               users |-> { Username(u) :
                                    u \in TenantUsers(tenant, user_tenants') }]]
    /\ UNCHANGED <<storeVars, queryVars, callVars, mapVars, authVars, pc,
                   user_groups, group_tenants>>

\* the user is taken out of a group
RemoveUserFromGroup(u, group) ==
    /\ pc = "members"
    /\ group \in user_groups[u]
    /\ user_groups' = [user_groups EXCEPT ![u] = @ \ {group}]
    /\ returned' = None
    /\ UNCHANGED <<storeVars, queryVars, callVars, mapVars, authVars, pc,
                   user_tenants, group_tenants>>

NextMembers ==
    \/ \E u \in UserIds : ReadAllTenants(u)
    \/ \E tenant \in TenantNames : ReadAllUsers(tenant)
    \/ \E u \in UserIds : UserToResponse(u)
    \/ \E tenant \in TenantNames : TenantToResponse(tenant)
    \/ \E u \in UserIds, group \in GroupNames : RemoveUserFromGroup(u, group)

SpecMembers == InitMembers /\ [][NextMembers]_vars

----------------------------------------------------------------------------
(* Properties *)

Count(r, s) == Cardinality({ i \in DOMAIN s : s[i] = r })

SameBag(a, b) ==
    /\ Len(a) = Len(b)
    /\ \A r \in Range(a) \cup Range(b) : Count(r, a) = Count(r, b)

TypeOf(fltrs) == fltrs.items["type"]

\* C1: the count plan returns the number of rows the selection plan yields
\* when the window does not cut it (offset 0, size >= total), with the
\* same filters and range filters.
CountEqualsSelected ==
    (pc = "executed" /\ params.offset = 0 /\ params.limit >= total)
        => total = Len(rows)

\* C2: no request of _query_events ends in BadParameters after a statement
\* has been executed against the store.
ValidationBeforeExecution == ~(raised = BadParameters /\ executed > 0)

\* the ORDER BY the entries of the request's sort list ask for, in the
\* order of the list
RequestedOrder(es_sorts) ==
    [i \in DOMAIN es_sorts |->
        <<es_sorts[i][1].name, IF es_sorts[i][2] = "asc" THEN "asc" ELSE "desc">>]

\* C3: the rows a request gets are ordered by the entries of its sort list
\* in the order given: the first entry is the primary key, a later one only
\* breaks ties of the earlier ones.
OrderedAsRequested ==
    (pc = "done" /\ raised = "")
        => IsOrderedBy(ordered, RequestedOrder(request.sort))

\* C4: with only cloudify_event requested every row is tagged
\* cloudify_event; with cloudify_log too the rows before windowing are the
\* matching event rows plus the matching log rows, each contributing its
\* own row, and the count is the sum of the two counts.
UnionOfEventsAndLogs ==
    pc = "executed" =>
        IF "cloudify_log" \in TypeOf(filters)
        THEN /\ SameBag(ordered,
                    Projected(select_query.from[1], events, logs, executions)
                    \o Projected(select_query.from[2], events, logs, executions))
             /\ total = Len(Matching(count_query.from[1], events, logs, executions))
                        + Len(Matching(count_query.from[2], events, logs, executions))
        ELSE \A i \in DOMAIN ordered : ordered[i].type = "cloudify_event"

\* rows is what LIMIT limit OFFSET offset leaves of whole
IsWindowOf(part, whole, p) ==
    /\ Len(part) <= p.limit
    /\ \A i \in DOMAIN part :
        p.offset + i \in DOMAIN whole /\ part[i] = whole[p.offset + i]

\* C5: with store, filters and sort fixed, executing with another
\* (size, offset) gives the same count and rows of the same unwindowed
\* result, never more than size of them.
PaginationKeepsCount ==
    [][ /\ pc' = "executed" => IsWindowOf(rows', ordered', params')
        /\ (pc = "executed" /\ pc' = "executed")
            => (total' = total /\ SameBag(ordered', ordered)) ]_vars

\* a window that cuts the result
WindowCuts ==
    /\ pc = "executed"
    /\ params.limit = 1 /\ params.offset = 1
    /\ Len(ordered) = 3
    /\ Len(rows) = 1
    /\ total = 3

InvalidTypeFilter(fltrs) ==
    \/ ~fltrs.mapping
    \/ "type" \notin DOMAIN fltrs.items
    \/ "cloudify_event" \notin fltrs.items["type"]

\* C6: both builders raise BadParameters, and nothing is executed, when
\* filters is no mapping, has no type key or has a type list without
\* cloudify_event.
TypeFilterRequired ==
    InvalidTypeFilter(filters) =>
        /\ pc # "args" => count_query.raised = BadParameters
        /\ pc \notin {"args", "count_built"} => select_query.raised = BadParameters
        /\ pc # "executed" /\ total = NoTotal /\ rows = <<>>

\* both builders have refused a type list that holds cloudify_log only
LogOnlyRefused ==
    /\ pc = "built"
    /\ filters.mapping /\ "type" \in DOMAIN filters.items
    /\ TypeOf(filters) = {"cloudify_log"}
    /\ count_query.raised = BadParameters
    /\ select_query.raised = BadParameters

\* C7: the selection builder raises BadParameters when a sort field, its
\* leading `@`s dropped, is no projected column; `@` followed by a projected
\* column is accepted and the rows are sorted by that column.
SortFieldChecked ==
    pc \in {"built", "executed"} =>
        /\ (\E i \in DOMAIN sort : sort[i][1].name \notin Range(ColumnNames))
            => select_query.raised = BadParameters
        /\ (\A i \in DOMAIN sort :
                sort[i][1].ats <= 1 /\ sort[i][1].name \in Range(ColumnNames))
            => /\ IsBuilt(select_query)
               /\ select_query.order_by = RequestedOrder(sort)
               /\ pc = "executed" => IsOrderedBy(ordered, RequestedOrder(sort))

\* rows sorted by `@timestamp` descending
SortedByPrefixedField ==
    /\ pc = "executed"
    /\ sort = << <<Fld(1, "timestamp"), "desc">> >>
    /\ Len(ordered) = 2
    /\ ordered[1].timestamp > ordered[2].timestamp

\* the models a range filter is applied to
TargetModels(fltrs) ==
    {"Event"} \cup (IF "cloudify_log" \in TypeOf(fltrs) THEN {"Log"} ELSE {})

UnknownRangeField(fltrs, rfilters) ==
    \E field \in DOMAIN rfilters, model \in TargetModels(fltrs) :
        field.name \notin ModelFields(model)

\* C8: both builders raise BadParameters when a range-filter field is no
\* field of Event, or of Log when cloudify_log is requested; they raise
\* nothing when every field exists on every model the filter is applied to.
RangeFieldChecked ==
    pc \in {"built", "executed"} =>
        IF UnknownRangeField(filters, range_filters)
        THEN /\ count_query.raised = BadParameters
             /\ select_query.raised = BadParameters
        ELSE IsBuilt(count_query) /\ IsBuilt(select_query)

\* a field of Event alone is refused once logs are requested too
EventOnlyFieldRefused ==
    /\ pc = "built"
    /\ Plain("message_code") \in DOMAIN range_filters
    /\ "cloudify_log" \in TypeOf(filters)
    /\ count_query.raised = BadParameters
    /\ select_query.raised = BadParameters

ForeignExecution(fltrs, ex) ==
    /\ fltrs.mapping
    /\ {"execution_id", "deployment_id"} \subseteq DOMAIN fltrs.items
    /\ \E x \in ExecutionIds, y \in DeploymentIds :
        /\ fltrs.items["execution_id"] = {x}
        /\ fltrs.items["deployment_id"] = {y}
        /\ ex[x] # y

\* C9: filtering by execution X and deployment Y, X not an execution of Y,
\* selects no row and counts zero, with and without logs.
ForeignExecutionSelectsNothing ==
    (pc = "executed" /\ ForeignExecution(filters, executions))
        => total = 0 /\ ordered = <<>> /\ rows = <<>>

\* events and logs of execution X exist, and deployment Y has rows too
ForeignExecutionQueried ==
    /\ pc = "executed"
    /\ ForeignExecution(filters, executions)
    /\ "cloudify_log" \in TypeOf(filters)
    /\ \E i \in DOMAIN events : events[i]._execution_fk \in filters.items["execution_id"]
    /\ \E i \in DOMAIN logs : logs[i]._execution_fk \in filters.items["execution_id"]
    /\ \E i \in DOMAIN events :
        executions[events[i]._execution_fk] \in filters.items["deployment_id"]
    /\ total = 0

\* ISO-8601 with millisecond precision and a literal Z, the digits below
\* the millisecond cut off
IsoMillisecondsZ(value) ==
    DatePrefix \o Digits(value \div 1000000, 2) \o <<".">>
    \o Digits((value % 1000000) \div 1000, 3) \o <<"Z">>

\* C10: the mapper renders the timestamp with exactly millisecond
\* precision and a Z, truncating, whatever the sub-second part; timestamp
\* and @timestamp are equal.
MillisecondTimestamps ==
    (pc = "mapped" /\ include.none) =>
        /\ event["timestamp"] = IsoMillisecondsZ(sql_event.timestamp)
        /\ event["@timestamp"] = event["timestamp"]

\* C11: mapped with a null projection list, a row gives a record whose
\* message is {text: the row's message}, whose deployment_id, operation and
\* node_id sit in `context` and nowhere at top level; an event's message also
\* has arguments = null and the record has neither logger nor level; a log's
\* record has no event_type, keeps logger and level, and its message has no
\* arguments.
ShapedByType ==
    (pc = "mapped" /\ include.none) =>
        /\ event["message"].text = sql_event.message
        /\ "context" \in DOMAIN event
        /\ event["context"] =
            [deployment_id |-> sql_event.deployment_id,
             operation |-> sql_event.operation, node_id |-> sql_event.node_id]
        /\ DOMAIN event \cap {"deployment_id", "operation", "node_id"} = {}
        /\ sql_event.type = "cloudify_event" =>
            /\ DOMAIN event["message"] = {"text", "arguments"}
            /\ event["message"].arguments = None
            /\ DOMAIN event \cap {"logger", "level"} = {}
        /\ sql_event.type = "cloudify_log" =>
            /\ "event_type" \notin DOMAIN event
            /\ {"logger", "level"} \subseteq DOMAIN event
            /\ event["logger"] = sql_event.logger
            /\ event["level"] = sql_event.level
            /\ DOMAIN event["message"] = {"text"}

\* a log has been mapped in full
LogShaped ==
    /\ pc = "mapped" /\ include.none
    /\ sql_event.type = "cloudify_log"
    /\ DOMAIN event =
        {"timestamp", "@timestamp", "message", "message_code", "context",
         "logger", "level", "type"}
    /\ event["logger"] = "ctx"

\* keys of the fully shaped record of a unified row
ShapedKeys(row) ==
    {"timestamp", "@timestamp", "message", "message_code", "context", "type"}
    \cup (IF row.type = "cloudify_event" THEN {"event_type"}
          ELSE {"logger", "level"})

\* C12: with a projection list L the record has exactly the keys of the
\* fully shaped record that are in L, none invented; with a null list it
\* has every key of the shaped record; the values are the same in both cases.
ProjectionKeepsListedKeys ==
    pc = "mapped" =>
        LET whole == MapEventToEs(None, sql_event)
        IN /\ DOMAIN whole = ShapedKeys(sql_event)
           /\ DOMAIN event =
                IF include.none THEN ShapedKeys(sql_event)
                ELSE ShapedKeys(sql_event) \cap include.keys
           /\ \A key \in DOMAIN event : event[key] = whole[key]

\* an event projected on timestamp and logger keeps the timestamp alone
MissingKeyNotInvented ==
    /\ pc = "mapped"
    /\ include = Included({"timestamp", "logger"})
    /\ sql_event.type = "cloudify_event"
    /\ DOMAIN event = {"timestamp"}

\* the stored rows of one execution, as the selection projects them
RowsOfExecution(id, ev, lg, ex) ==
    { Project(jr, "Event") :
        jr \in { j \in Range(Joined(ev, ex)) : j.execution.id = id } }
    \cup { Project(jr, "Log") :
        jr \in { j \in Range(Joined(lg, ex)) : j.execution.id = id } }

\* C13: _query_events asks for events and logs when query.bool has a
\* `should` key, empty or not, and for events alone otherwise; it filters
\* by the one execution id of the request; the size is 10000 when absent;
\* so the type validation never refuses the request and every hit is a row
\* of that execution.
FiltersDerivedFromRequest ==
    pc \in {"count", "select", "done"} =>
        /\ filters.mapping
        /\ DOMAIN filters.items = {"type", "execution_id"}
        /\ TypeOf(filters) =
            IF request.should.present THEN {"cloudify_event", "cloudify_log"}
            ELSE {"cloudify_event"}
        /\ filters.items["execution_id"] = {request.execution_id}
        /\ params.limit =
            IF request.size = NoSize THEN 10000 ELSE request.size
        /\ params.offset = request.from
        /\ pc \in {"select", "done"} => IsBuilt(count_query)
        /\ (pc = "done" /\ raised # "") =>
            \E i \in DOMAIN request.sort :
                request.sort[i][1].name \notin Range(ColumnNames)
        /\ (pc = "done" /\ raised = "") =>
            /\ Len(results.hits.hits) = Len(rows)
            /\ \A i \in DOMAIN rows :
                /\ results.hits.hits[i]._source = MapEventToEs(None, rows[i])
                /\ rows[i] \in RowsOfExecution(request.execution_id,
                                               events, logs, executions)
                /\ ~request.should.present => rows[i].type = "cloudify_event"

\* a request with an empty `should` and no size got the event and the log
\* of its execution, and not the event of the other execution
EmptyShouldAsksForLogs ==
    /\ pc = "done" /\ raised = ""
    /\ request.should = [present |-> TRUE, clauses |-> 0]
    /\ request.size = NoSize
    /\ params.limit = DEFAULT_SEARCH_SIZE
    /\ Len(results.hits.hits) = 2
    /\ \E i \in DOMAIN rows : rows[i].type = "cloudify_log"
    /\ \E i \in DOMAIN events : events[i]._execution_fk # request.execution_id

\* the owning execution and deployment of a joined row are in the value
\* lists of the filter keys that are present
FilterAdmits(fltrs, jr) ==
    /\ "execution_id" \in DOMAIN fltrs.items
        => jr.execution.id \in fltrs.items["execution_id"]
    /\ "deployment_id" \in DOMAIN fltrs.items
        => jr.deployment.id \in fltrs.items["deployment_id"]

\* the field of a row is within the bounds each range filter gives
RangeAdmits(rfilters, jr) ==
    \A field \in DOMAIN rfilters :
        /\ "from" \in DOMAIN rfilters[field] =>
            /\ ~IsNull(jr.row, field.name)
            /\ ColumnKey(jr.row, field.name) >= rfilters[field]["from"]
        /\ "to" \in DOMAIN rfilters[field] =>
            /\ ~IsNull(jr.row, field.name)
            /\ ColumnKey(jr.row, field.name) <= rfilters[field]["to"]

\* positions of the rows of a table that the filters and range filters admit
Admitted(table, fltrs, rfilters, ex) ==
    { i \in DOMAIN table :
        /\ FilterAdmits(fltrs, Joined(table, ex)[i])
        /\ RangeAdmits(rfilters, Joined(table, ex)[i]) }

\* the rows the filters and range filters admit, as the selection projects them
AdmittedRows(ev, lg, fltrs, rfilters, ex) ==
    { Project(Joined(ev, ex)[i], "Event") : i \in Admitted(ev, fltrs, rfilters, ex) }
    \cup (IF "cloudify_log" \in TypeOf(fltrs)
          THEN { Project(Joined(lg, ex)[i], "Log") :
                    i \in Admitted(lg, fltrs, rfilters, ex) }
          ELSE {})

AdmittedCount(ev, lg, fltrs, rfilters, ex) ==
    Cardinality(Admitted(ev, fltrs, rfilters, ex))
    + (IF "cloudify_log" \in TypeOf(fltrs)
       THEN Cardinality(Admitted(lg, fltrs, rfilters, ex)) ELSE 0)

\* C14: a row is selected and counted only if its execution's id is in
\* filters[execution_id] when that key is present and its deployment's id is
\* in filters[deployment_id] when that key is present; an absent key
\* constrains nothing and a present key with an empty list selects no row.
FiltersAreConjunctiveInLists ==
    pc = "executed" =>
        /\ Range(ordered) = AdmittedRows(events, logs, filters, EmptyDict, executions)
        /\ total = AdmittedCount(events, logs, filters, EmptyDict, executions)
        /\ (\E k \in {"execution_id", "deployment_id"} \cap DOMAIN filters.items :
                filters.items[k] = {})
            => total = 0 /\ ordered = <<>>
        /\ {"execution_id", "deployment_id"} \cap DOMAIN filters.items = {}
            => total = Len(events)
                       + (IF "cloudify_log" \in TypeOf(filters) THEN Len(logs) ELSE 0)

\* both executions are listed, one deployment is: the event of the
\* execution of the other deployment is left out
DeploymentNarrowsExecutions ==
    /\ pc = "executed"
    /\ {"execution_id", "deployment_id"} \subseteq DOMAIN filters.items
    /\ filters.items["execution_id"] = ExecutionIds
    /\ filters.items["deployment_id"] = {"d2"}
    /\ executions["e2"] = "d2"
    /\ Len(events) = 2
    /\ total = 1
    /\ Len(ordered) = 1

\* C15: for each range-filter field a row of the events, and of the logs
\* when they are requested, is kept iff field >= from when from is given and
\* field <= to when to is given, bounds included; a filter without bounds
\* removes no row.
RangeBoundsInclusive ==
    pc = "executed" =>
        /\ Range(ordered) =
            AdmittedRows(events, logs, filters, range_filters, executions)
        /\ total = AdmittedCount(events, logs, filters, range_filters, executions)
        /\ (\A field \in DOMAIN range_filters : DOMAIN range_filters[field] = {})
            => total = AdmittedCount(events, logs, filters, EmptyDict, executions)

\* the event and the log stamped with the bound are kept, the earlier event
\* is removed
RowsAtTheBoundKept ==
    /\ pc = "executed"
    /\ DOMAIN range_filters = {Plain("timestamp")}
    /\ range_filters[Plain("timestamp")] = [from |-> 5123456, to |-> 5123456]
    /\ "cloudify_log" \in TypeOf(filters)
    /\ Len(events) = 2 /\ Len(logs) = 1
    /\ \E i \in DOMAIN events : events[i].timestamp = 5000000
    /\ total = 2
    /\ \A i \in DOMAIN ordered : ordered[i].timestamp = 5123456
    /\ {ordered[i].type : i \in DOMAIN ordered} = {"cloudify_event", "cloudify_log"}

\* C16: in every envelope _query_events returns, hits.total is at least
\* the number of entries of hits.hits, also when other sessions append
\* events or logs between the count and the selection of the request.
TotalCoversHits ==
    (pc = "done" /\ raised = "")
        => results.hits.total >= Len(results.hits.hits)

\* C17: in the tuple get_token_status returns, expired and invalid are
\* never both true, and user is set only if the token deserialized to
\* non-empty data: an expired, badly signed or missing token gives
\* user = None and data = None; user_loader, for a request without
\* Authorization, returns None for each such token.
RejectedTokenGivesNoUser ==
    /\ token_status # None =>
        /\ ~(token_status.expired /\ token_status.invalid)
        /\ token_status.user # None =>
            /\ token.kind = "signed" /\ token.data.items # <<>>
            /\ token_status.data = token.data
            /\ ~token_status.expired /\ ~token_status.invalid
        /\ token.kind # "signed" =>
            /\ token_status.user = None /\ token_status.data = None
            /\ token_status.expired = (token.kind = "expired")
            /\ token_status.invalid = (token.kind # "expired")
    /\ (pc = "loaded" /\ authorization = None /\ token.kind # "signed")
        => user = None

\* an expired token of a user the datastore holds has been refused by
\* get_token_status and by user_loader
ExpiredTokenRefused ==
    /\ pc = "loaded"
    /\ authorization = None
    /\ token.kind = "expired"
    /\ Truthy(token.data) /\ token.data.items[1] \in users
    /\ token_status # None
    /\ token_status.expired /\ ~token_status.invalid
    /\ token_status.user = None
    /\ user = None

\* C18: reading User.all_tenants or Tenant.all_users, also through
\* to_response, returns every member once and leaves the direct collection
\* as it was: only a step that changes the groups of a user may change
\* what a later read returns, and no step changes User.tenants.
MembershipReadsArePure ==
    [][ /\ user_tenants' = user_tenants
        /\ (returned' # None /\ returned'.kind \in {"all_tenants", "all_users"})
            => \A i, j \in DOMAIN returned'.value :
                returned'.value[i] = returned'.value[j] => i = j ]_vars

====
